---- MODULE Spec2Model ----
(***************************************************************************)
(* OpenNewsAgent: the news fetcher (services/news_fetcher.py), the AI      *)
(* analyzer (services/ai_analyzer.py), the job manager                     *)
(* (services/job_manager.py) and the job pipeline (main.py).               *)
(*                                                                         *)
(* The specifications share the operators below:                           *)
(*   SpecFetch    one run of NewsFetcher.fetch_articles                    *)
(*   SpecAnalyze  one run of AIAnalyzer.analyze_articles                   *)
(*   SpecRank     the same with completions of every relevance label       *)
(*   Spec         the job table with the pipelines of several jobs         *)
(*   SpecApi      the requests of the HTTP API with the pipelines          *)
(*   SpecTable    capacity, eviction, the clock and restarts               *)
(*   SpecLive     the pipelines under fair scheduling                      *)
(***************************************************************************)
EXTENDS Integers, Sequences, FiniteSets, TLC

(***************************************************************************)
(* Bounds of the model.                                                    *)
(***************************************************************************)
\* SpecFetch: page size and page count of a request (models.py allows
\* 1..10 and 1..50)
MaxSize == 2
MaxPages == 2

\* link values of the articles the search API delivers; "" stands for an
\* empty or missing link (article.get("link", "") at news_fetcher.py:99)
Links == {"", "a", "b", "c"}

\* pagination cursors of the search API
Cursors == {"c1", "c2"}

\* the absent nextPage cursor (data.get("nextPage") is None)
NoPage == "<none>"

\* a field of a job record that is None
Null == "<null>"

(***************************************************************************)
(* Generic helpers.                                                        *)
(***************************************************************************)
SeqsUpTo(S, n) == UNION {[1..k -> S] : k \in 0..n}

Range(s) == {s[k] : k \in 1..Len(s)}

(***************************************************************************)
(* NewsFetcher (services/news_fetcher.py).                                 *)
(***************************************************************************)
\* _remove_duplicates: keep the article when its link is truthy and was not
\* seen before.  The recursion carries seen_links.
RECURSIVE RemoveDuplicatesFrom(_, _)
RemoveDuplicatesFrom(articles, seen_links) ==
    IF articles = <<>> THEN <<>>
    ELSE LET article == Head(articles)
             link == article.link
         IN IF link # "" /\ link \notin seen_links
            THEN <<article>> \o RemoveDuplicatesFrom(Tail(articles), seen_links \cup {link})
            ELSE RemoveDuplicatesFrom(Tail(articles), seen_links)

\* the same without seen_links.add(link)
RemoveDuplicatesNoSeen(articles) ==
    SelectSeq(articles, LAMBDA article : article.link # "")

RemoveDuplicates(articles) == RemoveDuplicatesFrom(articles, {})

\* The state of one call of fetch_articles at its suspension point (the page
\* request in flight).  requests and callbacks record the cursors sent and the
\* counts handed to progress_callback.
NewFetcher(size, max_pages) ==
    [pc |-> "await_page", size |-> size, max_pages |-> max_pages,
     all_articles |-> <<>>, page_count |-> 0, next_page |-> NoPage,
     requests |-> <<NoPage>>, callbacks |-> <<>>,
     result |-> <<>>, error |-> Null]

\* the articles of a page: the API's records, told apart by article_id
PageArticles(f, links) ==
    [k \in 1..Len(links) |->
        [article_id |-> Len(f.all_articles) + k, link |-> links[k]]]

\* The answers to a page request:
\*   transport   client.get raises (an httpx error; its text may be empty)
\*   http        raise_for_status raises; re-raised as Exception("HTTP <code>")
\*   api_error   the body has status == "error"
\*   ok          a page of at most `size` articles and a cursor or none
PageFailures ==
    { [kind |-> "transport", msg |-> ""],
      [kind |-> "transport", msg |-> "All connection attempts failed"],
      [kind |-> "http", msg |-> "HTTP 500"],
      [kind |-> "api_error", msg |-> "API error: Unknown error"] }

PagesOk(size, links, cursors) ==
    { [kind |-> "ok", links |-> ls, nextPage |-> np] :
        ls \in SeqsUpTo(links, size), np \in cursors \cup {NoPage} }

\* the same sending the cursor of the request before, not the one the
\* response returned
FetchOnResponseStaleCursor(f, resp) ==
    IF resp.kind # "ok"
    THEN [f EXCEPT !.pc = "raised", !.error = resp.msg]
    ELSE LET results == PageArticles(f, resp.links)
             all == f.all_articles \o results
         IN IF results = <<>>
            THEN [f EXCEPT !.pc = "returned",
                           !.result = RemoveDuplicates(f.all_articles)]
            ELSE IF resp.nextPage = NoPage \/ f.page_count + 1 >= f.max_pages
            THEN [f EXCEPT !.pc = "returned",
                           !.all_articles = all,
                           !.callbacks = Append(@, Len(all)),
                           !.next_page = resp.nextPage,
                           !.page_count = IF resp.nextPage = NoPage THEN @ ELSE @ + 1,
                           !.result = RemoveDuplicates(all)]
            ELSE [f EXCEPT !.all_articles = all,
                           !.callbacks = Append(@, Len(all)),
                           !.next_page = resp.nextPage,
                           !.page_count = @ + 1,
                           !.requests = Append(@, f.next_page)]

\* fetch_articles from the arrival of a page response to the next page
\* request, the return or the raise.
FetchOnResponse(f, resp) ==
    IF resp.kind # "ok"
    THEN [f EXCEPT !.pc = "raised", !.error = resp.msg]
    ELSE LET results == PageArticles(f, resp.links)
             all == f.all_articles \o results
         IN IF results = <<>>
            THEN [f EXCEPT !.pc = "returned",
                           !.result = RemoveDuplicates(f.all_articles)]
            ELSE IF resp.nextPage = NoPage \/ f.page_count + 1 >= f.max_pages
            THEN [f EXCEPT !.pc = "returned",
                           !.all_articles = all,
                           !.callbacks = Append(@, Len(all)),
                           !.next_page = resp.nextPage,
                           !.page_count = IF resp.nextPage = NoPage THEN @ ELSE @ + 1,
                           !.result = RemoveDuplicates(all)]
            ELSE [f EXCEPT !.all_articles = all,
                           !.callbacks = Append(@, Len(all)),
                           !.next_page = resp.nextPage,
                           !.page_count = @ + 1,
                           !.requests = Append(@, resp.nextPage)]

(***************************************************************************)
(* AIAnalyzer (services/ai_analyzer.py).                                   *)
(***************************************************************************)
\* A completion text is a sequence of tokens: an opening and a closing
\* bracket, a stretch of prose, a JSON number, and JSON objects that differ in
\* their "relevance" field (commas and white space are left out).
LB == "["
RB == "]"
PROSE == "prose"
NUM == "1"
ObjectTokens == {"VR", "R", "NR", "U", "M"}

\* the value of a dict without the key "relevance"
Absent == "<absent>"

\* the JSON object an object token stands for
ObjectOf(tok) ==
    [type |-> "object",
     relevance |-> CASE tok = "VR" -> "Very Relevant"
                     [] tok = "R" -> "Relevant"
                     [] tok = "NR" -> "Not Relevant"
                     [] tok = "U" -> "Somewhat Relevant"
                     [] OTHER -> Absent]

\* values that are no dict: a number, a nested list, a string
NonObject(type) == [type |-> type, relevance |-> Absent]

JsonList(items) == [type |-> "list", items |-> items]

\* json.loads of the tokens after an opening bracket: the items of the array,
\* or a JSONDecodeError (ok = FALSE) on prose, on an unbalanced bracket and on
\* data after the closing bracket.
RECURSIVE ScanArray(_, _, _, _)
ScanArray(s, k, depth, items) ==
    IF k > Len(s) THEN [ok |-> depth = 0, items |-> items]
    ELSE IF depth = 0 \/ s[k] = PROSE THEN [ok |-> FALSE, items |-> <<>>]
    ELSE IF s[k] = LB THEN ScanArray(s, k + 1, depth + 1, items)
    ELSE IF s[k] = RB
    THEN ScanArray(s, k + 1, depth - 1,
                   IF depth = 2 THEN Append(items, NonObject("list")) ELSE items)
    ELSE ScanArray(s, k + 1, depth,
                   IF depth # 1 THEN items
                   ELSE IF s[k] = NUM THEN Append(items, NonObject("number"))
                   ELSE Append(items, ObjectOf(s[k])))

\* _extract_json: re.search(r'\[.*\]', text, DOTALL) matches from the first
\* opening bracket to the last closing bracket; without a match the whole text
\* is parsed.  A JSONDecodeError is logged and gives [].
ExtractJson(text) ==
    LET opens == {k \in 1..Len(text) : text[k] = LB}
        first == CHOOSE k \in opens : \A m \in opens : k <= m
        closes == {k \in 1..Len(text) : text[k] = RB /\ opens # {} /\ k > first}
        last == CHOOSE k \in closes : \A m \in closes : m <= k
    IN IF closes # {}
       THEN LET parsed == ScanArray(SubSeq(text, first, last), 2, 1, <<>>)
            IN IF parsed.ok
               THEN [value |-> JsonList(parsed.items), failed |-> FALSE]
               ELSE [value |-> JsonList(<<>>), failed |-> TRUE]
       ELSE IF Len(text) = 1 /\ text[1] = NUM
            THEN [value |-> NonObject("number"), failed |-> FALSE]
       ELSE IF Len(text) = 1 /\ text[1] \in ObjectTokens
            THEN [value |-> ObjectOf(text[1]), failed |-> FALSE]
       ELSE [value |-> JsonList(<<>>), failed |-> TRUE]

\* The answers to a completion request: the request raises, or a completion
\* text arrives (<<>> is an empty or missing content).
ChunkResponses(texts) ==
    {[kind |-> "error", text |-> <<>>]} \cup {[kind |-> "text", text |-> t] : t \in texts}

\* _analyze_chunk after its request: raised for a request that failed, else
\* the value it returns; failed when it logged an error.
AnalyzeChunk(resp) ==
    IF resp.kind = "error"
    THEN [raised |-> TRUE, failed |-> TRUE, value |-> JsonList(<<>>)]
    ELSE IF resp.text = <<>>
    THEN [raised |-> FALSE, failed |-> TRUE, value |-> JsonList(<<>>)]
    ELSE LET r == ExtractJson(resp.text)
         IN [raised |-> FALSE, failed |-> r.failed, value |-> r.value]

\* the keys of a JSON object, which list.extend(dict) appends
KeysOf(obj) ==
    IF obj.relevance = Absent
    THEN <<NonObject("string")>>
    ELSE <<NonObject("string"), NonObject("string")>>

\* the same with 0 as the default of relevance_order.get
SortKeyDefaultFirst(x) ==
    CASE x.relevance = "Very Relevant" -> 0
      [] x.relevance = "Relevant" -> 1
      [] x.relevance = "Not Relevant" -> 2
      [] OTHER -> 0

\* relevance_order.get(x.get("relevance", ""), 3)
SortKey(x) ==
    CASE x.relevance = "Very Relevant" -> 0
      [] x.relevance = "Relevant" -> 1
      [] x.relevance = "Not Relevant" -> 2
      [] OTHER -> 3

\* list.sort is stable: an element goes behind the elements whose key is not
\* larger than its own.
RECURSIVE InsertByKey(_, _)
InsertByKey(sorted, x) ==
    IF sorted = <<>> THEN <<x>>
    ELSE IF SortKey(Head(sorted)) <= SortKey(x)
    THEN <<Head(sorted)>> \o InsertByKey(Tail(sorted), x)
    ELSE <<x>> \o sorted

RECURSIVE SortFrom(_, _)
SortFrom(sorted, rest) ==
    IF rest = <<>> THEN sorted
    ELSE SortFrom(InsertByKey(sorted, Head(rest)), Tail(rest))

SortByRelevance(all_classified) == SortFrom(<<>>, all_classified)

\* x.get raises AttributeError for an element that is no dict
SortRaises(all_classified) ==
    \E k \in 1..Len(all_classified) : all_classified[k].type # "object"

\* the same with the slice articles[i:i + chunk_size + 1]
ChunkAtOneMore(articles, i, chunk_size) ==
    SubSeq(articles, i + 1,
           IF i + chunk_size + 1 < Len(articles) THEN i + chunk_size + 1 ELSE Len(articles))

\* articles[i:i + chunk_size], i counted from 0
ChunkAt(articles, i, chunk_size) ==
    SubSeq(articles, i + 1,
           IF i + chunk_size < Len(articles) THEN i + chunk_size ELSE Len(articles))

\* str(e) of the AttributeError: the sort computes the keys in list order, so
\* the first element that is no dict names the type
SortError(all_classified) ==
    LET bad == {k \in 1..Len(all_classified) : all_classified[k].type # "object"}
        first == CHOOSE k \in bad : \A m \in bad : k <= m
        type == all_classified[first].type
    IN IF type = "number" THEN "'int' object has no attribute 'get'"
       ELSE IF type = "string" THEN "'str' object has no attribute 'get'"
       ELSE "'list' object has no attribute 'get'"

\* lines 65-70: sort all_classified and return it, or raise out of the sort
FinishAnalysis(a) ==
    IF SortRaises(a.all_classified)
    THEN [a EXCEPT !.pc = "raised", !.error = SortError(a.all_classified)]
    ELSE [a EXCEPT !.pc = "returned",
                   !.result = SortByRelevance(a.all_classified)]

\* The state of one call of analyze_articles at its suspension point (the
\* completion request of the chunk at offset i in flight).  calls records the
\* chunks sent, failures the chunks that logged an error.
NewAnalyzer(articles, chunk_size) ==
    LET a == [pc |-> "await_completion", articles |-> articles,
              chunk_size |-> chunk_size, i |-> 0, all_classified |-> <<>>,
              calls |-> <<>>, failures |-> 0, result |-> <<>>, error |-> Null]
    IN IF articles = <<>> THEN FinishAnalysis(a)
       ELSE [a EXCEPT !.calls = <<ChunkAt(articles, 0, chunk_size)>>]

\* all_classified.extend(classified) inside the try of the loop: a request
\* that raised and a value that is not iterable leave all_classified as it is
Extend(all_classified, out) ==
    IF out.raised \/ out.value.type = "number" THEN all_classified
    ELSE IF out.value.type = "list" THEN all_classified \o out.value.items
    ELSE all_classified \o KeysOf(out.value)

\* analyze_articles from the arrival of a completion (out is what
\* _analyze_chunk makes of it) to the next request, the return or the raise
AnalyzeOnOutcome(a, out) ==
    LET b == [a EXCEPT !.all_classified = Extend(@, out),
                       !.failures = IF out.failed \/ out.value.type = "number"
                                    THEN @ + 1 ELSE @,
                       !.i = @ + a.chunk_size]
    IN IF b.i < Len(a.articles)
       THEN [b EXCEPT !.calls = Append(@, ChunkAt(a.articles, b.i, a.chunk_size))]
       ELSE FinishAnalysis(b)

\* what _analyze_chunk can make of the completions over a set of texts
ChunkOutcomes(texts) == {AnalyzeChunk(resp) : resp \in ChunkResponses(texts)}

\* bounds of SpecAnalyze: article count, chunk size, tokens of a completion
MaxArticles == 3
MaxChunk == 2
MaxTextLen == 4

\* completion texts with prose, numbers and one kind of object
AnalyzeTokens == {LB, RB, PROSE, NUM, "R"}

AnalyzerOutcomes == ChunkOutcomes(SeqsUpTo(AnalyzeTokens, MaxTextLen))

\* n deduplicated articles as the fetcher hands them over
ArticlesOf(n) == [k \in 1..n |-> [article_id |-> k, link |-> "a"]]

(***************************************************************************)
(* JobManager (services/job_manager.py).                                   *)
(*                                                                         *)
(* The table self.jobs is the function jobs (job id -> JobStatus) with     *)
(* order, the insertion order of the dict.  The results directory is the   *)
(* function files from <<job id, extension>> to the content of the file.   *)
(* An Optional field is <<>> for None and <<v>> for the value v; an         *)
(* Optional string is Null or the string.                                  *)
(***************************************************************************)
None == <<>>
Some(v) == <<v>>

JobIds == {"j1", "j2"}

Exts == {"json", "csv", "xlsx"}

\* JobManager(): max_jobs of __init__
DefaultMaxJobs == 100

EmptyTable == [j \in {} |-> Null]

Without(table, ids) == [k \in DOMAIN table \ ids |-> table[k]]

With(table, key, value) ==
    [k \in DOMAIN table \cup {key} |-> IF k = key THEN value ELSE table[k]]

RemoveIds(seq, ids) == SelectSeq(seq, LAMBDA j : j \notin ids)

\* delete_job for the ids of a set: the records and their three files
DeletedJobs(table, ids) == Without(table, ids)

DeletedOrder(ord, ids) == RemoveIds(ord, ids)

\* the same removing the snapshot only
DeletedFilesJsonOnly(store, ids) == Without(store, ids \X {"json"})

DeletedFiles(store, ids) == Without(store, ids \X Exts)

\* the same putting a job before the jobs of the same creation time
RECURSIVE InsertByCreatedTiesFirst(_, _, _)
InsertByCreatedTiesFirst(table, sorted, j) ==
    IF sorted = <<>> THEN <<j>>
    ELSE IF table[Head(sorted)].created_at < table[j].created_at
    THEN <<Head(sorted)>> \o InsertByCreatedTiesFirst(table, Tail(sorted), j)
    ELSE <<j>> \o sorted

\* sorted(self.jobs.items(), key=created_at): stable over the dict's order
RECURSIVE InsertByCreated(_, _, _)
InsertByCreated(table, sorted, j) ==
    IF sorted = <<>> THEN <<j>>
    ELSE IF table[Head(sorted)].created_at <= table[j].created_at
    THEN <<Head(sorted)>> \o InsertByCreated(table, Tail(sorted), j)
    ELSE <<j>> \o sorted

RECURSIVE SortByCreated(_, _, _)
SortByCreated(table, sorted, rest) ==
    IF rest = <<>> THEN sorted
    ELSE SortByCreated(table, InsertByCreated(table, sorted, Head(rest)), Tail(rest))

\* the same taking the jobs in the order of the dict, without the sort
CleanupFirstJobs(table, ord, cap) ==
    IF Len(ord) <= cap THEN {}
    ELSE {ord[i] : i \in 1..(Len(ord) - cap)}

\* the same deleting one job only
CleanupOneOldJob(table, ord, cap) ==
    IF Len(ord) <= cap THEN {}
    ELSE {SortByCreated(table, <<>>, ord)[1]}

\* _cleanup_old_jobs: the ids it deletes
CleanupOldJobs(table, ord, cap) ==
    IF Len(ord) <= cap THEN {}
    ELSE LET sorted_jobs == SortByCreated(table, <<>>, ord)
             jobs_to_remove == Len(ord) - cap
         IN {sorted_jobs[i] : i \in 1..jobs_to_remove}

\* the JobStatus create_job builds
NewJob(query, now) ==
    [status |-> "created", progress |-> 0, created_at |-> now, updated_at |-> now,
     query |-> query, total_articles |-> None, error |-> Null, results |-> None]

\* the arguments of update_job: a field left out is None
NoUpdate ==
    [status |-> Null, progress |-> None, total_articles |-> None,
     error |-> Null, results |-> None]

\* update_job, lines 65-80: the record after the update.  status and error
\* are set when truthy, the other fields when not None.
UpdatedJob(job, u, now) ==
    [job EXCEPT !.status = IF u.status # Null /\ u.status # "" THEN u.status ELSE @,
                !.progress = IF u.progress # None THEN u.progress[1] ELSE @,
                !.total_articles = IF u.total_articles # None THEN u.total_articles ELSE @,
                !.error = IF u.error # Null /\ u.error # "" THEN u.error ELSE @,
                !.results = IF u.results # None THEN u.results ELSE @,
                !.updated_at = now]

\* update_job, lines 82-83 with _save_results: the snapshot is written when
\* the status is "completed" and results is truthy
SavesResults(u) ==
    u.status = "completed" /\ u.results # None /\ u.results[1] # <<>>

\* json.dump of a classified article: the text of the value (the token that
\* ObjectOf reads back)
JsonDump(x) ==
    IF x.type = "number" THEN NUM
    ELSE IF x.type # "object" THEN PROSE
    ELSE CASE x.relevance = "Very Relevant" -> "VR"
           [] x.relevance = "Relevant" -> "R"
           [] x.relevance = "Not Relevant" -> "NR"
           [] x.relevance = "Somewhat Relevant" -> "U"
           [] OTHER -> "M"

\* json.load of the text of an article
JsonLoad(tok) ==
    IF tok = NUM THEN NonObject("number")
    ELSE IF tok = PROSE THEN NonObject("string")
    ELSE ObjectOf(tok)

\* _save_results: the file results/<job_id>.json, its articles as JSON text,
\* with the modification time of the file
Snapshot(job, results, now) ==
    [query |-> job.query, total_articles |-> Len(results),
     articles |-> [k \in 1..Len(results) |-> JsonDump(results[k])], mtime |-> now]

\* the same reading the results from a key the snapshot does not have
LoadedJobNoArticles(data) ==
    [status |-> "completed", progress |-> 100,
     created_at |-> data.mtime, updated_at |-> data.mtime,
     query |-> data.query, total_articles |-> Some(data.total_articles),
     error |-> Null, results |-> Some(<<>>)]

\* _load_existing_results, lines 244-254: the JobStatus built from a snapshot
LoadedJob(data) ==
    [status |-> "completed", progress |-> 100,
     created_at |-> data.mtime, updated_at |-> data.mtime,
     query |-> data.query, total_articles |-> Some(data.total_articles),
     error |-> Null,
     results |-> Some([k \in 1..Len(data.articles) |-> JsonLoad(data.articles[k])])]

\* _load_existing_results: a job for every .json file of the results
\* directory (csv and xlsx files are passed over)
LoadExistingResults(store) ==
    [j \in {f[1] : f \in {g \in DOMAIN store : g[2] = "json"}} |->
        LoadedJob(store[<<j, "json">>])]

\* the orders in which os.listdir can give the files of the ids
RECURSIVE ListDirOrders(_)
ListDirOrders(ids) ==
    IF ids = {} THEN {<<>>}
    ELSE UNION {{<<j>> \o rest : rest \in ListDirOrders(ids \ {j})} : j \in ids}

\* list_jobs: jobs_list.sort(key=updated_at, reverse=True) keeps the order of
\* the dict among jobs with the same updated_at
RECURSIVE InsertByUpdated(_, _, _)
InsertByUpdated(table, sorted, j) ==
    IF sorted = <<>> THEN <<j>>
    ELSE IF table[Head(sorted)].updated_at >= table[j].updated_at
    THEN <<Head(sorted)>> \o InsertByUpdated(table, Tail(sorted), j)
    ELSE <<j>> \o sorted

RECURSIVE SortByUpdated(_, _, _)
SortByUpdated(table, sorted, rest) ==
    IF rest = <<>> THEN sorted
    ELSE SortByUpdated(table, InsertByUpdated(table, sorted, Head(rest)), Tail(rest))

\* jobs_list[:limit]: a negative limit leaves out that many jobs at the end
SliceTo(s, limit) ==
    LET stop == IF limit >= 0 THEN limit ELSE Len(s) + limit
    IN SubSeq(s, 1, IF stop > Len(s) THEN Len(s) ELSE IF stop < 0 THEN 0 ELSE stop)

\* list_jobs(limit): the entries it returns
ListJobs(table, ord, limit) ==
    LET jobs_list == SliceTo(SortByUpdated(table, <<>>, ord), limit)
    IN [k \in 1..Len(jobs_list) |->
           [job_id |-> jobs_list[k],
            status |-> table[jobs_list[k]].status,
            query |-> table[jobs_list[k]].query,
            progress |-> table[jobs_list[k]].progress,
            total_articles |-> table[jobs_list[k]].total_articles,
            created_at |-> table[jobs_list[k]].created_at,
            updated_at |-> table[jobs_list[k]].updated_at]]

\* the content of a csv or xlsx export (the model keeps the rows only)
Export(results) == [rows |-> results]

\* the same without the check of the format
ExportResultsAnyFormat(table, store, job_id, format) ==
    IF job_id \notin DOMAIN table
       \/ table[job_id].results = None \/ table[job_id].results = Some(<<>>)
    THEN [raised |-> TRUE, detail |-> "Job not found or no results", store |-> store]
    ELSE [raised |-> FALSE, detail |-> "",
          store |-> With(store, <<job_id, format>>, Export(table[job_id].results[1]))]

\* export_results: raised with the text of the exception, or the path it
\* returns (the key of the file) and the results directory after the call
ExportResults(table, store, job_id, format) ==
    IF job_id \notin DOMAIN table
       \/ table[job_id].results = None \/ table[job_id].results = Some(<<>>)
    THEN [raised |-> TRUE, detail |-> "Job not found or no results", store |-> store]
    ELSE IF format = "json"
    THEN [raised |-> FALSE, detail |-> "", store |-> store]
    ELSE IF format \in {"csv", "xlsx"}
    THEN [raised |-> FALSE, detail |-> "",
          store |-> With(store, <<job_id, format>>, Export(table[job_id].results[1]))]
    ELSE [raised |-> TRUE, detail |-> "Unsupported format", store |-> store]

(***************************************************************************)
(* The job pipeline (main.py).                                             *)
(***************************************************************************)
\* chunk_size of analyze_articles, which process_news_search leaves at its
\* default
DefaultChunkSize == 15

\* the same without the division by the expected number of articles
FetchProgressUnscaled(article_count, size, max_pages) ==
    10 + article_count * 30

\* update_fetch_progress: 10 + int((article_count / (size * max_pages)) * 30).
\* For every size in 1..10, max_pages in 1..50 and count up to size * max_pages
\* the float expression equals this integer quotient.
FetchProgress(article_count, size, max_pages) ==
    10 + (article_count * 30) \div (size * max_pages)

\* the first update with the status of the second phase
FetchingUpdateAsAnalyzing ==
    [NoUpdate EXCEPT !.status = "analyzing", !.progress = Some(10)]

\* the last update without its status
CompletedUpdateNoStatus(classified_articles) ==
    [NoUpdate EXCEPT !.progress = Some(100),
                     !.results = Some(classified_articles),
                     !.total_articles = Some(Len(classified_articles))]

\* the "No articles found" update without progress=100
NoArticlesUpdateNoProgress ==
    [NoUpdate EXCEPT !.status = "failed", !.error = "No articles found"]

\* the calls of update_job in process_news_search
FetchingUpdate == [NoUpdate EXCEPT !.status = "fetching", !.progress = Some(10)]

ProgressUpdate(article_count, size, max_pages) ==
    [NoUpdate EXCEPT !.status = "fetching",
                     !.progress = Some(FetchProgress(article_count, size, max_pages)),
                     !.total_articles = Some(article_count)]

NoArticlesUpdate ==
    [NoUpdate EXCEPT !.status = "failed", !.error = "No articles found",
                     !.progress = Some(100)]

\* the same without progress=50
AnalyzingUpdateKeepsProgress(articles) ==
    [NoUpdate EXCEPT !.status = "analyzing", !.total_articles = Some(Len(articles))]

AnalyzingUpdate(articles) ==
    [NoUpdate EXCEPT !.status = "analyzing", !.progress = Some(50),
                     !.total_articles = Some(Len(articles))]

CompletedUpdate(classified_articles) ==
    [NoUpdate EXCEPT !.status = "completed", !.progress = Some(100),
                     !.results = Some(classified_articles),
                     !.total_articles = Some(Len(classified_articles))]

\* the same leaving the status as it is
FailedUpdateNoStatus(error) ==
    [NoUpdate EXCEPT !.progress = Some(100), !.error = error]

\* the except clause: error is str(e)
FailedUpdate(error) ==
    [NoUpdate EXCEPT !.status = "failed", !.error = error, !.progress = Some(100)]

\* no call of fetch_articles or analyze_articles in progress
IdleFetcher == [NewFetcher(1, 1) EXCEPT !.pc = "idle"]

IdleAnalyzer == [NewAnalyzer(<<>>, 1) EXCEPT !.pc = "idle"]

\* the task of a job id that was never created
NoTask ==
    [pc |-> "none", size |-> 1, max_pages |-> 1,
     fetcher |-> IdleFetcher, analyzer |-> IdleAnalyzer]

\* no request was handled by the last step
NoReply == [op |-> "none"]

\* what the model records about a job for the properties: the statuses the
\* record went through, the number of articles the search API delivered
\* (once fetch_articles returned) and whether analyze_articles was called
NothingSeen == [statuses |-> <<>>, fetched |-> None, analyzer_invoked |-> FALSE]

(***************************************************************************)
(* State.                                                                  *)
(***************************************************************************)
VARIABLES
    jobs,       \* JobManager.jobs: job id -> JobStatus
    order,      \* the insertion order of JobManager.jobs
    max_jobs,   \* JobManager.max_jobs
    files,      \* the results directory: <<job id, extension>> -> content
    clock,      \* datetime.now()
    task,       \* job id -> the process_news_search task of the job
    seen,       \* job id -> what the properties need of the job's past
    reply,      \* SpecApi: what the request handled by the last step gave
    ft,         \* SpecFetch: the call of fetch_articles under check
    an          \* SpecAnalyze, SpecRank: the call of analyze_articles under check

vars == <<jobs, order, max_jobs, files, clock, task, seen, reply, ft, an>>

jobVars == <<jobs, order, max_jobs, files, clock, task, seen, reply>>

\* the job manager of main.py right after JobManager() on an empty results
\* directory, and no task
InitJobs ==
    /\ jobs = EmptyTable
    /\ order = <<>>
    /\ max_jobs = DefaultMaxJobs
    /\ files = EmptyTable
    /\ clock = 0
    /\ task = [j \in JobIds |-> NoTask]
    /\ seen = [j \in JobIds |-> NothingSeen]
    /\ reply = NoReply

(***************************************************************************)
(* Spec: the job table and the pipelines of the jobs.  A task takes a step *)
(* from one suspension point (a page request, a completion request) to the *)
(* next, and a step holds at most one call of update_job.                  *)
(***************************************************************************)
JobMaxSize == 2
JobMaxPages == 2
JobMaxArticles == 2

\* the <<size, max_pages>> of the requests: at most JobMaxArticles expected articles
Requests ==
    {r \in (1..JobMaxSize) \X (1..JobMaxPages) : r[1] * r[2] <= JobMaxArticles}

Queries == {"q"}

JobLinks == {"", "a"}

JobCursors == {"c1"}

\* the same writing a record for an id the table does not have
UpdateJobUpsert(j, u, fetched, invoked) ==
    LET job == IF j \in DOMAIN jobs THEN jobs[j] ELSE NewJob("q", clock)
    IN /\ jobs' = With(jobs, j, UpdatedJob(job, u, clock))
       /\ files' = IF SavesResults(u)
                   THEN With(files, <<j, "json">>, Snapshot(job, u.results[1], clock))
                   ELSE files
       /\ seen' = [seen EXCEPT ![j] =
                      [statuses |-> IF jobs'[j].status # job.status
                                    THEN Append(seen[j].statuses, jobs'[j].status)
                                    ELSE seen[j].statuses,
                       fetched |-> fetched, analyzer_invoked |-> invoked]]

\* the same assigning the fields to every record of the table
UpdateJobAll(j, u, fetched, invoked) ==
    IF j \in DOMAIN jobs
    THEN /\ jobs' = [k \in DOMAIN jobs |-> UpdatedJob(jobs[k], u, clock)]
         /\ files' = IF SavesResults(u)
                     THEN With(files, <<j, "json">>, Snapshot(jobs[j], u.results[1], clock))
                     ELSE files
         /\ seen' = [seen EXCEPT ![j] =
                        [statuses |-> IF jobs'[j].status # jobs[j].status
                                      THEN Append(seen[j].statuses, jobs'[j].status)
                                      ELSE seen[j].statuses,
                         fetched |-> fetched, analyzer_invoked |-> invoked]]
    ELSE /\ seen' = [seen EXCEPT ![j].fetched = fetched,
                                 ![j].analyzer_invoked = invoked]
         /\ UNCHANGED <<jobs, files>>

\* update_job(job_id, ...): nothing happens for an id that is not in the
\* table.  fetched and invoked are what the model records with the step.
UpdateJob(j, u, fetched, invoked) ==
    IF j \in DOMAIN jobs
    THEN /\ jobs' = [jobs EXCEPT ![j] = UpdatedJob(jobs[j], u, clock)]
         /\ files' = IF SavesResults(u)
                     THEN With(files, <<j, "json">>, Snapshot(jobs[j], u.results[1], clock))
                     ELSE files
         /\ seen' = [seen EXCEPT ![j] =
                        [statuses |-> IF jobs'[j].status # jobs[j].status
                                      THEN Append(seen[j].statuses, jobs'[j].status)
                                      ELSE seen[j].statuses,
                         fetched |-> fetched, analyzer_invoked |-> invoked]]
    ELSE /\ seen' = [seen EXCEPT ![j].fetched = fetched,
                                 ![j].analyzer_invoked = invoked]
         /\ UNCHANGED <<jobs, files>>

\* POST /api/search: create_job (with _cleanup_old_jobs) and create_task
CreateSearchJob(j, query, size, max_pages) ==
    /\ task[j].pc = "none"
    /\ LET added == With(jobs, j, NewJob(query, clock))
           appended == Append(order, j)
           evicted == IF Len(appended) > max_jobs
                      THEN CleanupOldJobs(added, appended, max_jobs) ELSE {}
       IN /\ jobs' = DeletedJobs(added, evicted)
          /\ order' = DeletedOrder(appended, evicted)
          /\ files' = DeletedFiles(files, evicted)
    /\ task' = [task EXCEPT ![j] = [NoTask EXCEPT !.pc = "start", !.size = size,
                                                   !.max_pages = max_pages]]
    /\ seen' = [seen EXCEPT ![j].statuses = <<"created">>]
    /\ UNCHANGED <<max_jobs, clock>>

\* process_news_search up to the first page request
StartPipeline(j) ==
    /\ task[j].pc = "start"
    /\ UpdateJob(j, FetchingUpdate, seen[j].fetched, seen[j].analyzer_invoked)
    /\ task' = [task EXCEPT ![j].pc = "fetching",
                            ![j].fetcher = NewFetcher(task[j].size, task[j].max_pages)]
    /\ UNCHANGED <<order, max_jobs, clock>>

\* a page response arrives: fetch_articles runs on, with update_fetch_progress
\* after a page that is not empty, and the except clause of
\* process_news_search when the request failed
PageResponseFrom(j, responses) ==
    /\ task[j].pc = "fetching"
    /\ \E resp \in responses :
          LET f == FetchOnResponse(task[j].fetcher, resp)
              count == Len(f.all_articles)
              fetched == IF f.pc = "returned" THEN Some(count) ELSE seen[j].fetched
          IN IF f.pc = "raised"
             THEN /\ UpdateJob(j, FailedUpdate(f.error), fetched, FALSE)
                  /\ task' = [task EXCEPT ![j] = [NoTask EXCEPT !.pc = "done"]]
             ELSE /\ IF Len(f.callbacks) > Len(task[j].fetcher.callbacks)
                     THEN UpdateJob(j, ProgressUpdate(count, task[j].size, task[j].max_pages),
                                    fetched, FALSE)
                     ELSE /\ seen' = [seen EXCEPT ![j].fetched = fetched]
                          /\ UNCHANGED <<jobs, files>>
                  /\ task' = [task EXCEPT ![j].fetcher = f,
                                          ![j].pc = IF f.pc = "returned"
                                                    THEN "fetched" ELSE "fetching"]
    /\ UNCHANGED <<order, max_jobs, clock>>

PageResponse(j) ==
    PageResponseFrom(j, PageFailures \cup PagesOk(task[j].size, JobLinks, JobCursors))

\* fetch_articles has returned: "No articles found", or the move to the
\* analyzing phase and the first completion request
AfterFetch(j) ==
    /\ task[j].pc = "fetched"
    /\ LET articles == task[j].fetcher.result
       IN IF articles = <<>>
          THEN /\ UpdateJob(j, NoArticlesUpdate, seen[j].fetched, FALSE)
               /\ task' = [task EXCEPT ![j] = [NoTask EXCEPT !.pc = "done"]]
          ELSE /\ UpdateJob(j, AnalyzingUpdate(articles), seen[j].fetched, TRUE)
               /\ task' = [task EXCEPT ![j].pc = "analyzing",
                                       ![j].fetcher = IdleFetcher,
                                       ![j].analyzer = NewAnalyzer(articles, DefaultChunkSize)]
    /\ UNCHANGED <<order, max_jobs, clock>>

\* a completion arrives: analyze_articles runs on; when it returns the job is
\* completed with the results, when it raises the job is failed
ChunkResponseFrom(j, outcomes) ==
    /\ task[j].pc = "analyzing"
    /\ \E out \in outcomes :
          LET a == AnalyzeOnOutcome(task[j].analyzer, out)
          IN IF a.pc = "await_completion"
             THEN /\ task' = [task EXCEPT ![j].analyzer = a]
                  /\ UNCHANGED <<jobs, files, seen>>
             ELSE /\ task' = [task EXCEPT ![j] = [NoTask EXCEPT !.pc = "done"]]
                  /\ IF a.pc = "returned"
                     THEN UpdateJob(j, CompletedUpdate(a.result), seen[j].fetched, TRUE)
                     ELSE UpdateJob(j, FailedUpdate(a.error), seen[j].fetched, TRUE)
    /\ UNCHANGED <<order, max_jobs, clock>>

ChunkResponse(j) == ChunkResponseFrom(j, AnalyzerOutcomes)

\* DELETE /api/jobs/{job_id} for an id of the table
DeleteJob(j) ==
    /\ j \in DOMAIN jobs
    /\ jobs' = DeletedJobs(jobs, {j})
    /\ order' = DeletedOrder(order, {j})
    /\ files' = DeletedFiles(files, {j})
    /\ UNCHANGED <<max_jobs, clock, task, seen>>

Init ==
    /\ InitJobs
    /\ ft = IdleFetcher
    /\ an = IdleAnalyzer

Create ==
    /\ \E j \in JobIds, query \in Queries, r \in Requests :
          CreateSearchJob(j, query, r[1], r[2])
    /\ UNCHANGED <<reply, ft, an>>

Start ==
    /\ \E j \in JobIds : StartPipeline(j)
    /\ UNCHANGED <<reply, ft, an>>

Page ==
    /\ \E j \in JobIds : PageResponse(j)
    /\ UNCHANGED <<reply, ft, an>>

Fetched ==
    /\ \E j \in JobIds : AfterFetch(j)
    /\ UNCHANGED <<reply, ft, an>>

Chunk ==
    /\ \E j \in JobIds : ChunkResponse(j)
    /\ UNCHANGED <<reply, ft, an>>

Delete ==
    /\ \E j \in JobIds : DeleteJob(j)
    /\ UNCHANGED <<reply, ft, an>>

Next == Create \/ Start \/ Page \/ Fetched \/ Chunk \/ Delete

Spec == Init /\ [][Next]_vars

(***************************************************************************)
(* SpecFetch: one call of fetch_articles, for every request within the     *)
(* bounds and every answer of the search API.                              *)
(***************************************************************************)
InitFetch ==
    /\ ft \in {NewFetcher(size, max_pages) : size \in 1..MaxSize, max_pages \in 1..MaxPages}
    /\ an = IdleAnalyzer
    /\ InitJobs

FetchPage ==
    /\ ft.pc = "await_page"
    /\ \E resp \in PageFailures \cup PagesOk(ft.size, Links, Cursors) :
          ft' = FetchOnResponse(ft, resp)
    /\ UNCHANGED <<an, jobVars>>

SpecFetch == InitFetch /\ [][FetchPage]_vars

(***************************************************************************)
(* SpecAnalyze: one call of analyze_articles, for every article count and  *)
(* chunk size within the bounds and every answer of the completion API.    *)
(***************************************************************************)
InitAnalyze ==
    /\ an \in {NewAnalyzer(ArticlesOf(n), c) : n \in 0..MaxArticles, c \in 1..MaxChunk}
    /\ ft = IdleFetcher
    /\ InitJobs

AnalyzeCompletion ==
    /\ an.pc = "await_completion"
    /\ \E out \in AnalyzerOutcomes : an' = AnalyzeOnOutcome(an, out)
    /\ UNCHANGED <<ft, jobVars>>

SpecAnalyze == InitAnalyze /\ [][AnalyzeCompletion]_vars

(***************************************************************************)
(* SpecRank: one call of analyze_articles whose completions are arrays of  *)
(* objects of every relevance label.                                       *)
(***************************************************************************)
RankArticles == 2

RankTokens == {LB, RB} \cup ObjectTokens

RankOutcomes == ChunkOutcomes(SeqsUpTo(RankTokens, MaxTextLen))

InitRank ==
    /\ an \in {NewAnalyzer(ArticlesOf(n), c) : n \in 1..RankArticles, c \in 1..MaxChunk}
    /\ ft = IdleFetcher
    /\ InitJobs

RankCompletion ==
    /\ an.pc = "await_completion"
    /\ \E out \in RankOutcomes : an' = AnalyzeOnOutcome(an, out)
    /\ UNCHANGED <<ft, jobVars>>

SpecRank == InitRank /\ [][RankCompletion]_vars

(***************************************************************************)
(* SpecApi: the requests of the HTTP API (search, download, delete) with   *)
(* the pipelines of the jobs.  The pipelines run requests of one page of   *)
(* one article.                                                            *)
(***************************************************************************)
\* the bounds of SearchRequest.size and SearchRequest.max_pages
SizeLimit == 10
PagesLimit == 50

\* the formats a download is asked in: the three of export_results and one
\* it does not know
Formats == Exts \cup {"pdf"}

\* the request bodies of POST /api/search: a valid one, and one for each way
\* of failing the validation of SearchRequest
GoodRequest ==
    [query |-> "q", languages |-> <<"en">>, categories |-> <<"science">>,
     size |-> 1, max_pages |-> 1]

ApiRequests ==
    { GoodRequest,
      [GoodRequest EXCEPT !.query = ""],
      [GoodRequest EXCEPT !.languages = <<>>],
      [GoodRequest EXCEPT !.categories = <<>>],
      [GoodRequest EXCEPT !.size = 0],
      [GoodRequest EXCEPT !.size = SizeLimit + 1],
      [GoodRequest EXCEPT !.max_pages = 0],
      [GoodRequest EXCEPT !.max_pages = PagesLimit + 1] }

\* the validation of SearchRequest without the check of the languages
ValidRequestAnyLanguages(request) ==
    /\ request.query # ""
    /\ request.categories # <<>>
    /\ request.size >= 1 /\ request.size <= SizeLimit
    /\ request.max_pages >= 1 /\ request.max_pages <= PagesLimit

\* SearchRequest: min_length=1, the two validators, ge=1/le=10, ge=1/le=50
ValidRequest(request) ==
    /\ request.query # ""
    /\ request.languages # <<>>
    /\ request.categories # <<>>
    /\ request.size >= 1 /\ request.size <= SizeLimit
    /\ request.max_pages >= 1 /\ request.max_pages <= PagesLimit

\* what a request gave: the endpoint, the job id and the format it named,
\* the HTTP status, the detail of the error, and the ids _cleanup_old_jobs
\* logged as cleaned up
Reply(op, id, format, status, detail, cleaned) ==
    [op |-> op, id |-> id, format |-> format, status |-> status,
     detail |-> detail, cleaned |-> cleaned]

\* POST /api/search: a body that fails the validation of SearchRequest is
\* answered with 422 before create_search_job runs
SearchRequest(j, request) ==
    IF ValidRequest(request)
    THEN /\ CreateSearchJob(j, request.query, request.size, request.max_pages)
         /\ reply' = Reply("search", j, Null, 200, "",
                           (DOMAIN jobs \cup {j}) \ DOMAIN jobs')
    ELSE /\ reply' = Reply("search", Null, Null, 422, "", {})
         /\ UNCHANGED <<jobs, order, max_jobs, files, clock, task, seen>>

\* GET /api/jobs/{job_id}/download
DownloadResults(j, format) ==
    /\ IF j \notin DOMAIN jobs
       THEN /\ reply' = Reply("download", j, format, 404, "Job not found", {})
            /\ UNCHANGED files
       ELSE IF jobs[j].status # "completed"
       THEN /\ reply' = Reply("download", j, format, 400, "Job not completed", {})
            /\ UNCHANGED files
       ELSE LET e == ExportResults(jobs, files, j, format)
            IN /\ files' = e.store
               /\ reply' = IF e.raised
                           THEN Reply("download", j, format, 500, e.detail, {})
                           ELSE IF <<j, format>> \notin DOMAIN e.store
                           THEN Reply("download", j, format, 500, "File does not exist", {})
                           ELSE Reply("download", j, format, 200, "", {})
    /\ UNCHANGED <<jobs, order, max_jobs, clock, task, seen>>

\* DELETE /api/jobs/{job_id} for any id
DeleteRequest(j) ==
    IF j \in DOMAIN jobs
    THEN /\ DeleteJob(j)
         /\ reply' = Reply("delete", j, Null, 200, "Job deleted successfully", {})
    ELSE /\ reply' = Reply("delete", j, Null, 404, "Job not found", {})
         /\ UNCHANGED <<jobs, order, max_jobs, files, clock, task, seen>>

ApiSearch ==
    /\ \E j \in JobIds, request \in ApiRequests : SearchRequest(j, request)
    /\ UNCHANGED <<ft, an>>

ApiStart ==
    /\ \E j \in JobIds : StartPipeline(j)
    /\ reply' = NoReply
    /\ UNCHANGED <<ft, an>>

ApiPage ==
    /\ \E j \in JobIds : PageResponse(j)
    /\ reply' = NoReply
    /\ UNCHANGED <<ft, an>>

ApiFetched ==
    /\ \E j \in JobIds : AfterFetch(j)
    /\ reply' = NoReply
    /\ UNCHANGED <<ft, an>>

ApiChunk ==
    /\ \E j \in JobIds : ChunkResponse(j)
    /\ reply' = NoReply
    /\ UNCHANGED <<ft, an>>

ApiDownload ==
    /\ \E j \in JobIds, format \in Formats : DownloadResults(j, format)
    /\ UNCHANGED <<ft, an>>

ApiDelete ==
    /\ \E j \in JobIds : DeleteRequest(j)
    /\ UNCHANGED <<ft, an>>

ApiNext ==
    \/ ApiSearch \/ ApiStart \/ ApiPage \/ ApiFetched \/ ApiChunk
    \/ ApiDownload \/ ApiDelete

SpecApi == Init /\ [][ApiNext]_vars

(***************************************************************************)
(* SpecTable: the job table with a small capacity, a clock that advances,  *)
(* a results directory that holds files at the start of the process, and   *)
(* restarts of the process.  The jobs of JobIds are created by searches;   *)
(* the ids of StoredIds are those of snapshots found at the start.         *)
(***************************************************************************)
MaxCap == 2
MaxClock == 2

StoredIds == {"s1", "s2"}

TableIds == JobIds \cup StoredIds

\* a task that is over, or the id of a job loaded from the results directory
DoneTask == [NoTask EXCEPT !.pc = "done"]

\* the files of a job that an earlier run of the process left: the snapshot
\* written at time 0 or 1, alone or with a csv and an xlsx export
StoredFiles(j) ==
    LET results == <<ObjectOf("R")>>
    IN UNION {{ [f \in {<<j, "json">>} |-> Snapshot(NewJob("q", 0), results, m)],
                [f \in {j} \X Exts |->
                    IF f[2] = "json" THEN Snapshot(NewJob("q", 0), results, m)
                    ELSE Export(results)] } : m \in 0..1}

\* two directories with files of different ids, together
Merged(a, b) == [f \in DOMAIN a \cup DOMAIN b |-> IF f \in DOMAIN a THEN a[f] ELSE b[f]]

RECURSIVE StoresOver(_)
StoresOver(ids) ==
    IF ids = {} THEN {EmptyTable}
    ELSE LET j == CHOOSE x \in ids : TRUE
             rest == StoresOver(ids \ {j})
         IN rest \cup {Merged(a, b) : a \in StoredFiles(j), b \in rest}

\* the results directories at the start of the process
StartStores == StoresOver(StoredIds)

\* the answers of the remote APIs in SpecTable: a page request fails or
\* gives one article; a completion request fails or gives one classified
\* article
TablePages ==
    { [kind |-> "http", msg |-> "HTTP 500"],
      [kind |-> "ok", links |-> <<"a">>, nextPage |-> NoPage] }

TableOutcomes == ChunkOutcomes({<<LB, "R", RB>>})

\* the model's record of the jobs after a start: a loaded job is completed
SeenAtStart(table) ==
    [j \in TableIds |->
        IF j \in DOMAIN table
        THEN [NothingSeen EXCEPT !.statuses = <<"completed">>]
        ELSE NothingSeen]

\* JobManager() at the start of the process: the table loaded from the
\* results directory, in the order of os.listdir; no task runs
TableInit ==
    /\ max_jobs \in 1..MaxCap
    /\ files \in StartStores
    /\ jobs = LoadExistingResults(files)
    /\ order \in ListDirOrders(DOMAIN jobs)
    /\ clock = 1
    /\ task = [j \in TableIds |-> IF j \in DOMAIN jobs THEN DoneTask ELSE NoTask]
    /\ seen = SeenAtStart(jobs)
    /\ reply = NoReply
    /\ ft = IdleFetcher
    /\ an = IdleAnalyzer

\* the process ends and starts again: every task is gone, and JobManager()
\* loads the table from the results directory.  An id that was given out is
\* not given out again.
Restart ==
    /\ jobs' = LoadExistingResults(files)
    /\ order' \in ListDirOrders(DOMAIN jobs')
    /\ task' = [j \in TableIds |->
                  IF task[j].pc = "none" /\ j \notin DOMAIN jobs' THEN NoTask ELSE DoneTask]
    /\ seen' = SeenAtStart(jobs')
    /\ reply' = Reply("startup", Null, Null, 200, "", {})
    /\ UNCHANGED <<max_jobs, files, clock>>

TableSearch ==
    /\ \E j \in JobIds : SearchRequest(j, GoodRequest)
    /\ UNCHANGED <<ft, an>>

TableStart ==
    /\ \E j \in JobIds : StartPipeline(j)
    /\ reply' = NoReply
    /\ UNCHANGED <<ft, an>>

TablePage ==
    /\ \E j \in JobIds : PageResponseFrom(j, TablePages)
    /\ reply' = NoReply
    /\ UNCHANGED <<ft, an>>

TableFetched ==
    /\ \E j \in JobIds : AfterFetch(j)
    /\ reply' = NoReply
    /\ UNCHANGED <<ft, an>>

TableChunk ==
    /\ \E j \in JobIds : ChunkResponseFrom(j, TableOutcomes)
    /\ reply' = NoReply
    /\ UNCHANGED <<ft, an>>

\* a delete request for a job of the table (SpecApi has those for other ids)
TableDelete ==
    /\ \E j \in TableIds \cap DOMAIN jobs : DeleteRequest(j)
    /\ UNCHANGED <<ft, an>>

TableRestart ==
    /\ Restart
    /\ UNCHANGED <<ft, an>>

\* time passes
Tick ==
    /\ clock < MaxClock
    /\ clock' = clock + 1
    /\ reply' = NoReply
    /\ UNCHANGED <<jobs, order, max_jobs, files, task, seen, ft, an>>

TableNext ==
    \/ TableSearch \/ TableStart \/ TablePage \/ TableFetched \/ TableChunk
    \/ TableDelete \/ TableRestart \/ Tick

SpecTable == TableInit /\ [][TableNext]_vars

(***************************************************************************)
(* SpecLive: the pipelines of the jobs under fair scheduling, interleaved  *)
(* with the requests of the API, over a table of small capacity.  Every    *)
(* remote call is answered, and the event loop runs a task that can run.   *)
(***************************************************************************)
\* limit of GET /api/jobs when the caller gives none
DefaultLimit == 50

Limits == {-1, 0, 1, DefaultLimit}

LiveInit ==
    /\ max_jobs \in 1..MaxCap
    /\ jobs = EmptyTable
    /\ order = <<>>
    /\ files = EmptyTable
    /\ clock = 0
    /\ task = [j \in JobIds |-> NoTask]
    /\ seen = [j \in JobIds |-> NothingSeen]
    /\ reply = NoReply
    /\ ft = IdleFetcher
    /\ an = IdleAnalyzer

\* the next step of the task of job j: from one suspension point to the next
TaskStep(j) ==
    /\ \/ StartPipeline(j)
       \/ PageResponseFrom(j, TablePages)
       \/ AfterFetch(j)
       \/ ChunkResponseFrom(j, TableOutcomes)
    /\ reply' = NoReply
    /\ UNCHANGED <<ft, an>>

\* GET /api/jobs
ListRequest(limit) ==
    /\ reply' = [op |-> "list", limit |-> limit, entries |-> ListJobs(jobs, order, limit)]
    /\ UNCHANGED <<jobs, order, max_jobs, files, clock, task, seen>>

LiveSearch ==
    /\ \E j \in JobIds : SearchRequest(j, GoodRequest)
    /\ UNCHANGED <<ft, an>>

LiveStep == \E j \in JobIds : TaskStep(j)

LiveDownload ==
    /\ \E j \in JobIds, format \in Formats : DownloadResults(j, format)
    /\ UNCHANGED <<ft, an>>

LiveDelete ==
    /\ \E j \in JobIds : DeleteRequest(j)
    /\ UNCHANGED <<ft, an>>

LiveList ==
    /\ \E limit \in Limits : ListRequest(limit)
    /\ UNCHANGED <<ft, an>>

LiveNext == LiveSearch \/ LiveStep \/ LiveDownload \/ LiveDelete \/ LiveList

SpecLive ==
    /\ LiveInit
    /\ [][LiveNext]_vars
    /\ \A j \in JobIds : WF_vars(TaskStep(j))

(***************************************************************************)
(* SpecList: list_jobs over tables whose jobs were loaded at the start or  *)
(* created and updated at different times.                                 *)
(***************************************************************************)
ListSearch ==
    /\ \E j \in JobIds : SearchRequest(j, GoodRequest)
    /\ UNCHANGED <<ft, an>>

ListStart ==
    /\ \E j \in JobIds : StartPipeline(j)
    /\ reply' = NoReply
    /\ UNCHANGED <<ft, an>>

ListList ==
    /\ \E limit \in Limits : ListRequest(limit)
    /\ UNCHANGED <<ft, an>>

ListNext == ListSearch \/ ListStart \/ ListList \/ Tick

SpecList == TableInit /\ [][ListNext]_vars

(***************************************************************************)
(* Properties.                                                             *)
(***************************************************************************)
\* the job table holds records of the JobStatus shape
TypeOK ==
    /\ DOMAIN jobs \subseteq JobIds
    /\ \A j \in DOMAIN jobs :
          jobs[j].status \in {"created", "fetching", "analyzing", "completed", "failed"}

AllowedTransitions ==
    { <<"created", "fetching">>, <<"fetching", "analyzing">>,
      <<"analyzing", "completed">>, <<"fetching", "failed">>,
      <<"analyzing", "failed">> }

\* C2: every change of a job's status is a step of created -> fetching ->
\* analyzing -> completed, or a step to failed from fetching or analyzing; a
\* completed or failed job keeps its status.
C2_StatusStateMachine ==
    [][\A j \in DOMAIN jobs \cap DOMAIN jobs' :
          \/ jobs'[j].status = jobs[j].status
          \/ <<jobs[j].status, jobs'[j].status>> \in AllowedTransitions]_vars

\* a job failed out of the analyzing phase
C2_Witness ==
    \E j \in DOMAIN jobs :
        seen[j].statuses = <<"created", "fetching", "analyzing", "failed">>

\* C3: a completed job has results and a JSON snapshot whose total_articles
\* is the length of the results, also when the results are empty.
C3_CompletedHasSnapshot ==
    \A j \in DOMAIN jobs :
        jobs[j].status = "completed" =>
            /\ jobs[j].results # None
            /\ <<j, "json">> \in DOMAIN files
            /\ files[<<j, "json">>].total_articles = Len(jobs[j].results[1])

\* C4: a failed job has an error message and no JSON snapshot, whatever the
\* text of the exception.
C4_FailedHasError ==
    \A j \in DOMAIN jobs :
        jobs[j].status = "failed" =>
            /\ jobs[j].error # Null
            /\ <<j, "json">> \notin DOMAIN files

\* C5: a job whose fetch returned with no article delivered went created,
\* fetching, failed, ends with the error "No articles found" and progress
\* 100, and its analyzer was never called.
C5_NoArticlesFound ==
    \A j \in DOMAIN jobs :
        seen[j].fetched = Some(0) =>
            /\ ~seen[j].analyzer_invoked
            /\ task[j].analyzer = IdleAnalyzer
            /\ task[j].pc \in {"fetched", "done"}
            /\ task[j].pc = "done" =>
                  /\ seen[j].statuses = <<"created", "fetching", "failed">>
                  /\ jobs[j].status = "failed"
                  /\ jobs[j].error = "No articles found"
                  /\ jobs[j].progress = 100

C5_Witness ==
    \E j \in DOMAIN jobs :
        /\ seen[j].fetched = Some(0)
        /\ task[j].pc = "done"
        /\ jobs[j].status = "failed"

\* the positions of the articles with an empty link, and the links that are
\* not empty
EmptyLinked(articles) == {k \in 1..Len(articles) : articles[k].link = ""}

NonEmptyLinks(articles) == {articles[k].link : k \in 1..Len(articles)} \ {""}

\* C6: the output of fetch_articles holds every fetched article with an
\* empty link, and its length is the number of distinct non-empty links plus
\* the number of articles with an empty link.
C6_EmptyLinksKept ==
    ft.pc = "returned" =>
        /\ \A k \in EmptyLinked(ft.all_articles) : ft.all_articles[k] \in Range(ft.result)
        /\ Len(ft.result) = Cardinality(NonEmptyLinks(ft.all_articles))
                            + Cardinality(EmptyLinked(ft.all_articles))

\* C7: when every fetched article has a non-empty link, the output holds
\* one article for each link, the first one fetched with that link, in the
\* order of the fetch, and deduplicating the output again changes nothing.
C7_FirstOccurrenceKept ==
    (ft.pc = "returned" /\ EmptyLinked(ft.all_articles) = {}) =>
        LET all == ft.all_articles
            out == ft.result
        IN /\ Len(out) = Cardinality(NonEmptyLinks(all))
           /\ \A k \in 1..Len(out) :
                 /\ out[k] \in Range(all)
                 /\ \A m \in 1..Len(all) :
                       all[m].link = out[k].link => out[k].article_id <= all[m].article_id
           /\ \A k, m \in 1..Len(out) :
                 k < m => /\ out[k].article_id < out[m].article_id
                          /\ out[k].link # out[m].link
           /\ RemoveDuplicates(out) = out

\* two pages of two articles with one link of the first page again on the
\* second: three articles are returned
C7_Witness ==
    /\ ft.pc = "returned"
    /\ EmptyLinked(ft.all_articles) = {}
    /\ ft.callbacks = <<2, 4>>
    /\ Len(ft.result) = 3
    /\ \E k \in 1..2, m \in 3..4 : ft.all_articles[k].link = ft.all_articles[m].link

\* the rank of a classified article by its label
RankOf(x) ==
    IF x.relevance = "Very Relevant" THEN 0
    ELSE IF x.relevance = "Relevant" THEN 1
    ELSE IF x.relevance = "Not Relevant" THEN 2
    ELSE 3

OfRank(articles, r) == SelectSeq(articles, LAMBDA x : RankOf(x) = r)

\* C8: the output of analyze_articles is ordered by rank (Very Relevant,
\* Relevant, Not Relevant, then any other or missing label), and the articles
\* of one rank are in the order in which the chunks produced them.
C8_SortedByRankStable ==
    an.pc = "returned" =>
        /\ \A k, m \in 1..Len(an.result) :
              k < m => RankOf(an.result[k]) <= RankOf(an.result[m])
        /\ \A r \in 0..3 : OfRank(an.result, r) = OfRank(an.all_classified, r)

\* two chunks gave articles that the sort moved, with two different
\* articles of the last rank among them
C8_Witness ==
    /\ an.pc = "returned"
    /\ Len(an.calls) = 2
    /\ an.result # an.all_classified
    /\ Len(an.result) >= 3
    /\ \E k, m \in 1..Len(an.result) :
          /\ k < m
          /\ RankOf(an.result[k]) = 3
          /\ RankOf(an.result[m]) = 3
          /\ an.result[k] # an.result[m]

\* C9: analyze_articles sends ceil(n / c) completion requests, one at a
\* time; the k-th carries the articles (k-1)c+1 .. min(kc, n); a chunk that
\* failed changes nothing of this.
C9_ChunkCalls ==
    an.pc # "idle" =>
        LET n == Len(an.articles)
            c == an.chunk_size
            expected == (n + c - 1) \div c
        IN /\ \A k \in 1..Len(an.calls) :
                 an.calls[k] = SubSeq(an.articles, (k - 1) * c + 1,
                                      IF k * c < n THEN k * c ELSE n)
           /\ an.pc = "await_completion" =>
                 /\ Len(an.calls) = (an.i \div c) + 1
                 /\ Len(an.calls) <= expected
           /\ an.pc \in {"returned", "raised"} => Len(an.calls) = expected

\* three articles in chunks of two: requests of 2 and 1 articles, one of
\* them failed
C9_Witness ==
    /\ an.pc = "returned"
    /\ Len(an.articles) = 3
    /\ an.chunk_size = 2
    /\ Len(an.calls) = 2
    /\ Len(an.calls[1]) = 2
    /\ Len(an.calls[2]) = 1
    /\ an.failures = 1

\* C10: the output of analyze_articles over n articles has at most n
\* entries, and exactly n when no chunk failed.
C10_OutputLength ==
    an.pc = "returned" =>
        /\ Len(an.result) <= Len(an.articles)
        /\ an.failures = 0 => Len(an.result) = Len(an.articles)

\* a chunk failed: its request raised, its text held no parsable JSON, or the
\* text parsed to something that is not an array of objects
ChunkFailed(out) ==
    \/ out.raised
    \/ out.failed
    \/ out.value.type # "list"
    \/ \E k \in 1..Len(out.value.items) : out.value.items[k].type # "object"

\* C11: a chunk that failed adds nothing to the classified articles and does
\* not make analyze_articles raise; when the call returns with it, the output
\* holds what the other chunks gave.
C11_ChunkFailureConfined ==
    [][\A out \in AnalyzerOutcomes :
          (/\ an.pc = "await_completion"
           /\ an' = AnalyzeOnOutcome(an, out)
           /\ ChunkFailed(out)) =>
              /\ an'.all_classified = an.all_classified
              /\ an'.pc # "raised"
              /\ an'.pc = "returned" =>
                    /\ Len(an'.result) = Len(an.all_classified)
                    /\ Range(an'.result) = Range(an.all_classified)]_vars

\* a job without results: no record, results None, or an empty list
NoResults(j) ==
    j \notin DOMAIN jobs \/ jobs[j].results = None \/ jobs[j].results = Some(<<>>)

\* C12: a download asked for a job without results or in a format that is
\* not json, csv or xlsx is answered with an error, and the table, the
\* results directory and the tasks stay as they are.
C12_ExportErrorLeavesJobs ==
    [][reply'.op = "download" =>
          ((NoResults(reply'.id) \/ reply'.format \notin {"json", "csv", "xlsx"}) =>
              /\ reply'.status \in {400, 404, 500}
              /\ jobs' = jobs
              /\ files' = files
              /\ task' = task)]_vars

\* a download was refused for a job that is fetching, while the other job is
\* completed and has an exported csv file
C12_Witness ==
    /\ reply.op = "download"
    /\ reply.status = 400
    /\ reply.id \in DOMAIN jobs
    /\ jobs[reply.id].status = "fetching"
    /\ \E k \in DOMAIN jobs :
          /\ k # reply.id
          /\ jobs[k].status = "completed"
          /\ <<k, "csv">> \in DOMAIN files

\* C13: a download in format json for a completed job succeeds, and the
\* snapshot file of the job exists.
C13_CompletedExportsJson ==
    [][(/\ reply'.op = "download"
        /\ reply'.format = "json"
        /\ reply'.id \in DOMAIN jobs
        /\ jobs[reply'.id].status = "completed") =>
            /\ reply'.status = 200
            /\ <<reply'.id, "json">> \in DOMAIN files']_vars

\* C18: deleting a job of the table removes its record and its json, csv and
\* xlsx files and nothing else; deleting an unknown id is answered with "not
\* found" and changes neither the table nor the results directory.
C18_DeleteFrame ==
    [][reply'.op = "delete" =>
          LET j == reply'.id
          IN IF j \in DOMAIN jobs
             THEN /\ reply'.status = 200
                  /\ DOMAIN jobs' = DOMAIN jobs \ {j}
                  /\ \A k \in DOMAIN jobs' : jobs'[k] = jobs[k]
                  /\ DOMAIN files' = {f \in DOMAIN files : f[1] # j}
                  /\ \A f \in DOMAIN files' : files'[f] = files[f]
             ELSE /\ reply'.status = 404
                  /\ jobs' = jobs
                  /\ files' = files]_vars

\* a completed job was deleted while the other job, with an exported file,
\* stays in the table
C18_Witness ==
    /\ reply.op = "delete"
    /\ reply.status = 200
    /\ reply.id \notin DOMAIN jobs
    /\ seen[reply.id].statuses = <<"created", "fetching", "analyzing", "completed">>
    /\ \A ext \in Exts : <<reply.id, ext>> \notin DOMAIN files
    /\ \E k \in DOMAIN jobs : <<k, "json">> \in DOMAIN files /\ <<k, "xlsx">> \in DOMAIN files

\* the body fails the validation: empty query, no language, no category, a
\* size outside 1..10 or a max_pages outside 1..50
FailsValidation(request) ==
    \/ request.query = ""
    \/ request.languages = <<>>
    \/ request.categories = <<>>
    \/ request.size \notin 1..10
    \/ request.max_pages \notin 1..50

\* C20: a search request whose body fails the validation is refused, adds no
\* record to the table and starts no task.
C20_InvalidRequestRejected ==
    [][\A request \in ApiRequests :
          (FailsValidation(request) /\ \E j \in JobIds : SearchRequest(j, request)) =>
              /\ reply'.status = 422
              /\ jobs' = jobs
              /\ order' = order
              /\ files' = files
              /\ task' = task]_vars

\* a search was refused while a job is in the table
C20_Witness ==
    /\ reply.op = "search"
    /\ reply.status = 422
    /\ jobs # EmptyTable
    /\ \E j \in JobIds : task[j].pc = "none"

\* C17: a job whose fetch_articles raised on a page request (its task is
\* over and the fetch never returned) is failed with progress 100 and the
\* message of the error, has no results, and its analyzer was never called.
C17_FetchErrorFailsJob ==
    \A j \in DOMAIN jobs :
        (task[j].pc = "done" /\ seen[j].fetched = None) =>
            /\ jobs[j].status = "failed"
            /\ jobs[j].progress = 100
            /\ jobs[j].error # Null
            /\ jobs[j].results = None
            /\ ~seen[j].analyzer_invoked

\* a search request was accepted in the step: create_job has returned
JobCreated == reply'.op = "search" /\ reply'.status = 200

\* C14: when the table holds max_jobs jobs and a job is created, one job
\* leaves the table; no job of the table was created before it, whatever
\* its status; its json, csv and xlsx files are gone and no other file is
\* touched.
C14_EvictsOldestAtCapacity ==
    [][(JobCreated /\ Cardinality(DOMAIN jobs) = max_jobs) =>
          \E e \in DOMAIN jobs :
              /\ DOMAIN jobs' = (DOMAIN jobs \cup {reply'.id}) \ {e}
              /\ reply'.cleaned = {e}
              /\ \A k \in DOMAIN jobs : jobs[e].created_at <= jobs[k].created_at
              /\ DOMAIN files' = {f \in DOMAIN files : f[1] # e}
              /\ \A f \in DOMAIN files' : files'[f] = files[f]]_vars

\* a job whose pipeline is running was evicted by the creation of another
\* job, with the table at its capacity
C14_Witness ==
    /\ reply.op = "search"
    /\ reply.status = 200
    /\ Cardinality(DOMAIN jobs) = max_jobs
    /\ \E e \in JobIds :
          /\ reply.cleaned = {e}
          /\ task[e].pc \in {"fetching", "analyzing"}
          /\ e \notin DOMAIN jobs

\* C15: after a job is created the table holds at most max_jobs jobs, also
\* when the start loaded more snapshots than that; the number of jobs
\* removed is the excess over max_jobs, and no job that stays was created
\* before a job that was removed.
C15_TableWithinCapacity ==
    [][JobCreated =>
          LET before == DOMAIN jobs \cup {reply'.id}
              removed == before \ DOMAIN jobs'
              excess == Cardinality(before) - max_jobs
              created(j) == IF j \in DOMAIN jobs THEN jobs[j].created_at ELSE clock
          IN /\ Cardinality(DOMAIN jobs') <= max_jobs
             /\ DOMAIN jobs' \subseteq before
             /\ reply'.cleaned = removed
             /\ Cardinality(removed) = IF excess > 0 THEN excess ELSE 0
             /\ \A e \in removed, k \in DOMAIN jobs' : created(e) <= created(k)]_vars

\* the start had loaded two snapshots into a table of capacity one, and the
\* creation of a job removed both
C15_Witness ==
    /\ reply.op = "search"
    /\ reply.status = 200
    /\ max_jobs = 1
    /\ reply.cleaned = StoredIds
    /\ DOMAIN jobs = {reply.id}

\* C19: a completed job with a snapshot in the results directory is in the
\* table after a restart, completed, with progress 100, without error, and
\* with the query, the results and the total_articles it had.
C19_SnapshotSurvivesRestart ==
    [][reply'.op = "startup" =>
          \A j \in DOMAIN jobs :
              (jobs[j].status = "completed" /\ <<j, "json">> \in DOMAIN files) =>
                  /\ j \in DOMAIN jobs'
                  /\ jobs'[j].status = "completed"
                  /\ jobs'[j].progress = 100
                  /\ jobs'[j].error = Null
                  /\ jobs'[j].query = jobs[j].query
                  /\ jobs'[j].results = jobs[j].results
                  /\ jobs'[j].total_articles = jobs[j].total_articles]_vars

\* a job created by a search completed, and is in the table after a restart
\* that ended the pipeline of the other job
C19_Witness ==
    /\ reply.op = "startup"
    /\ \E j, k \in JobIds :
          /\ j \in DOMAIN jobs
          /\ jobs[j].status = "completed"
          /\ jobs[j].results = Some(<<ObjectOf("R")>>)
          /\ k \notin DOMAIN jobs
          /\ task[k].pc = "done"

\* the pipeline of job j was launched: create_task was called for it
Launched(j) == task[j].pc = "start"

\* C16 as stated: every job whose pipeline was launched is eventually in the
\* table with status completed or failed.
C16_EveryJobTerminates ==
    \A j \in JobIds :
        Launched(j) ~> (j \in DOMAIN jobs /\ jobs[j].status \in {"completed", "failed"})

\* C16, amended: every pipeline that was launched eventually ends, and then
\* its job is completed or failed unless a delete or an eviction removed it
\* from the table.
C16_PipelineEnds ==
    \A j \in JobIds :
        Launched(j) ~> (/\ task[j].pc = "done"
                        /\ j \in DOMAIN jobs => jobs[j].status \in {"completed", "failed"})

\* one job completed and was downloaded while the other, evicted or deleted,
\* ran to its end
C16_Witness ==
    /\ reply.op = "download"
    /\ reply.status = 200
    /\ \E j, k \in JobIds :
          /\ j \in DOMAIN jobs
          /\ jobs[j].status = "completed"
          /\ task[j].pc = "done"
          /\ k \notin DOMAIN jobs
          /\ task[k].pc = "done"
          /\ seen[k].analyzer_invoked

C22_SequentialPages ==
    [][ft.pc = "await_page" =>
          LET grew == Len(ft'.all_articles) > Len(ft.all_articles)
              sent == Len(ft'.requests) > Len(ft.requests)
          IN /\ Len(ft'.requests) <= ft.max_pages
             /\ sent => /\ ft'.requests = Append(ft.requests, ft'.next_page)
                        /\ ft'.next_page # NoPage
                        /\ grew
                        /\ ft'.pc = "await_page"
             /\ ~sent => /\ ft'.requests = ft.requests
                         /\ ft'.pc \in {"returned", "raised"}
             /\ (~grew \/ ft'.next_page = NoPage \/ ft'.pc = "raised") => ~sent
             /\ ft'.callbacks = IF grew THEN Append(ft.callbacks, Len(ft'.all_articles))
                                ELSE ft.callbacks]_vars

\* two pages were asked for and fetched, the second with the cursor of the
\* first response; the second response gave a cursor too, but max_pages was
\* reached
C22_Witness ==
    /\ ft.pc = "returned"
    /\ ft.max_pages = 2
    /\ ft.requests = <<NoPage, "c2">>
    /\ ft.callbacks = <<1, 3>>
    /\ ft.next_page = "c1"

\* the fields of a record that the pipeline sets
Visible(job) ==
    <<job.status, job.progress, job.total_articles, job.error, job.results>>

\* the status sequences of a pipeline that runs alone
SoloStatuses ==
    { <<"created">>, <<"created", "fetching">>,
      <<"created", "fetching", "failed">>,
      <<"created", "fetching", "analyzing">>,
      <<"created", "fetching", "analyzing", "completed">>,
      <<"created", "fetching", "analyzing", "failed">> }

\* C23: a step that changes the status, progress, total_articles, error or
\* results of a job is a step of that job's own pipeline and leaves the
\* record, the task and the files of every other job as they are; the
\* statuses a job of the table went through are those of a pipeline that
\* runs alone.
C23_UpdatesTouchOneJob ==
    [][\A j \in JobIds :
          /\ (j \in DOMAIN jobs /\ j \in DOMAIN jobs'
              /\ Visible(jobs'[j]) # Visible(jobs[j])) =>
                 /\ task'[j] # task[j]
                 /\ \A k \in JobIds \ {j} :
                       /\ task'[k] = task[k]
                       /\ seen'[k] = seen[k]
                       /\ k \in DOMAIN jobs => (k \in DOMAIN jobs' /\ jobs'[k] = jobs[k])
                       /\ \A ext \in Exts :
                             /\ (<<k, ext>> \in DOMAIN files) = (<<k, ext>> \in DOMAIN files')
                             /\ <<k, ext>> \in DOMAIN files => files'[<<k, ext>>] = files[<<k, ext>>]
          /\ j \in DOMAIN jobs' => seen'[j].statuses \in SoloStatuses]_vars

\* one job has completed with an article while the other is in the middle
\* of its fetch
C23_Witness ==
    \E j, k \in DOMAIN jobs :
        /\ jobs[j].status = "completed"
        /\ jobs[j].results # None
        /\ jobs[j].results # Some(<<>>)
        /\ <<j, "json">> \in DOMAIN files
        /\ jobs[k].status = "fetching"
        /\ jobs[k].progress = 25
        /\ task[k].pc = "fetching"

\* C24: list_jobs(limit) gives at most limit entries (none for a limit that
\* is not positive), in non-increasing order of updated_at, no job left out
\* being more recently updated than a job listed, and leaves the table as
\* it is.
C24_ListMostRecent ==
    [][reply'.op = "list" =>
          LET entries == reply'.entries
              limit == reply'.limit
              listed == {entries[k].job_id : k \in 1..Len(entries)}
          IN /\ Len(entries) <= (IF limit > 0 THEN limit ELSE 0)
             /\ \A k \in 1..Len(entries) :
                   /\ entries[k].job_id \in DOMAIN jobs
                   /\ entries[k].updated_at = jobs[entries[k].job_id].updated_at
             /\ \A k, m \in 1..Len(entries) :
                   k < m => entries[k].updated_at >= entries[m].updated_at
             /\ \A j \in DOMAIN jobs \ listed, k \in listed :
                   jobs[j].updated_at <= jobs[k].updated_at
             /\ jobs' = jobs
             /\ order' = order
             /\ files' = files]_vars

\* the task of job j is between two of its steps
Running(j) == task[j].pc \in {"start", "fetching", "fetched", "analyzing"}

\* the step is one of the pipeline of job j
PipelineStep(j) == Running(j) /\ task'[j] # task[j] /\ reply'.op = "none"

\* C25: a step of the pipeline of a job whose record is gone (deleted or
\* evicted) leaves the table and the results directory as they are: no
\* record and no file for the id comes back, and the pipeline goes on to
\* its next position as it would with the record, down to its end.
C25_RemovedJobStaysRemoved ==
    [][\A j \in JobIds :
          (j \notin DOMAIN jobs /\ PipelineStep(j)) =>
              /\ jobs' = jobs
              /\ order' = order
              /\ files' = files
              /\ \A e \in Exts : <<j, e>> \notin DOMAIN files'
              /\ seen'[j].statuses = seen[j].statuses
              /\ task'[j].pc \in {"fetching", "fetched", "analyzing", "done"}]_vars

\* C25 witness: the record of job j1 was removed from a table of capacity 1
\* while j1 was fetching, and its pipeline has run to the end of the
\* analysis since; j2 is in the table, j1 is not, and no file of j1 exists.
C25_Witness ==
    /\ max_jobs = 1
    /\ "j1" \notin DOMAIN jobs
    /\ "j2" \in DOMAIN jobs
    /\ task["j1"].pc = "done"
    /\ seen["j1"].statuses = <<"created", "fetching">>
    /\ seen["j1"].analyzer_invoked
    /\ \A e \in Exts : <<"j1", e>> \notin DOMAIN files

\* C26: a job of the table has results only when it is completed, and an
\* error message only when it is failed.
C26_ResultsAndErrorMatchStatus ==
    \A j \in DOMAIN jobs :
        /\ jobs[j].results # None => jobs[j].status = "completed"
        /\ jobs[j].error # Null => jobs[j].status = "failed"

\* C26 witness: one job is completed with a classified article as its
\* result and no error, the other one is failed with an error message and
\* no results.
C26_Witness ==
    \E j, k \in DOMAIN jobs :
        /\ jobs[j].status = "completed"
        /\ jobs[j].results # None
        /\ jobs[j].results[1] # <<>>
        /\ jobs[j].error = Null
        /\ jobs[k].status = "failed"
        /\ jobs[k].error # Null
        /\ jobs[k].results = None

\* C27: the job create_job has just registered is in the table when the
\* call returns, as create_job built it (status created, progress 0,
\* created now), the last of the table's order, and not among the jobs the
\* call removed; the capacity is at least 1 in every state.
C27_NewJobSurvivesCleanup ==
    [][JobCreated =>
          /\ max_jobs >= 1
          /\ reply'.id \notin DOMAIN jobs
          /\ reply'.id \in DOMAIN jobs'
          /\ reply'.id \notin reply'.cleaned
          /\ jobs'[reply'.id] = NewJob(jobs'[reply'.id].query, clock)
          /\ jobs'[reply'.id].status = "created"
          /\ order' # <<>>
          /\ order'[Len(order')] = reply'.id]_vars

\* C27 witness: in a table of capacity 1, job j2 was created at the very
\* time job j1 had been created at, and the call removed j1 and kept j2.
C27_Witness ==
    /\ max_jobs = 1
    /\ clock = 1
    /\ reply.op = "search"
    /\ reply.status = 200
    /\ reply.id = "j2"
    /\ reply.cleaned = {"j1"}
    /\ task["j1"].pc # "none"
    /\ DOMAIN jobs = {"j2"}
    /\ jobs["j2"].status = "created"
    /\ jobs["j2"].created_at = 1

====
